---- MODULE Spec2Model ----
(***************************************************************************)
(* Model of include/functions/math.hpp: abs, big_pow10, pow (native and    *)
(* big exponent), sqrt, gcd, lcm and BigInt::is_probable_prime.            *)
(*                                                                         *)
(* One call is active at a time: a Call action takes the arguments, the    *)
(* loops of the function run one iteration per step, the function returns  *)
(* into (outcome, ret, retb), and Return gives control back to the caller. *)
(***************************************************************************)
EXTENDS Integers, Sequences, FiniteSets, TLC

VARIABLES
    fn,             \* the function being executed
    pc,             \* position inside it
    outcome,        \* how the call ended: a value, a bool or an exception
    ret,            \* BigInt return value
    retb,           \* bool return value
    base, exp_in,   \* pow: the caller's arguments
    exp,            \* pow: the by-value parameter the loop halves
    result, result_odd,
    num, sqrt_prev, sqrt_current,
    num1, num2, abs_num1, abs_num2, remainder,
    this,           \* is_probable_prime: *this
    certainty_in,   \* is_probable_prime: the caller's argument
    certainty,      \* is_probable_prime: the parameter the loop decrements
    maxRand, d, r, x, randNum, continueWhile, i,
    draws           \* the values n_random has returned during this call

ctl       == <<fn, pc, outcome, ret, retb>>
powVars   == <<base, exp_in, exp, result, result_odd>>
sqrtVars  == <<num, sqrt_prev, sqrt_current>>
gcdVars   == <<num1, num2, abs_num1, abs_num2, remainder>>
primeVars == <<this, certainty_in, certainty, maxRand, d, r, x, randNum,
               continueWhile, i, draws>>
vars      == <<ctl, powVars, sqrtVars, gcdVars, primeVars>>

(***************************************************************************)
(* Bounds of the model.                                                    *)
(***************************************************************************)
MaxBase == 3
MaxExp == 6
MaxNum == 1030
MaxGcd == 9
MaxPrime == 17
MaxCertainty == 2

(***************************************************************************)
(* The BigInt collaborator: truncating division, remainder with the sign   *)
(* of the dividend, decimal text.                                          *)
(***************************************************************************)
Mag(v) == IF v < 0 THEN -v ELSE v

TruncDiv(a, b) ==
    IF (a < 0) = (b < 0) THEN Mag(a) \div Mag(b) ELSE -(Mag(a) \div Mag(b))

TruncMod(a, b) == a - b * TruncDiv(a, b)

RECURSIVE to_string(_)
to_string(v) ==
    IF v < 10 THEN <<v>> ELSE Append(to_string(v \div 10), v % 10)

RECURSIVE FromString(_)
FromString(s) ==
    IF Len(s) = 0 THEN 0
    ELSE 10 * FromString(SubSeq(s, 1, Len(s) - 1)) + s[Len(s)]

(***************************************************************************)
(* abs, big_pow10                                                          *)
(***************************************************************************)
abs(v) == IF v < 0 THEN -v ELSE v

big_pow10(e) == FromString(<<1>> \o [k \in 1..e |-> 0])

(***************************************************************************)
(* pow.  PowEntry is the exp < 0 and exp == 0 prologue shared by the two   *)
(* overloads, PowStep one iteration of the squaring loop.  big selects the *)
(* overload: `exp % 2` (native int) or `exp % 2 == 1` (BigInt).            *)
(***************************************************************************)
PowEntry_one(b, e) ==
    IF e < 0 THEN
        IF b = 0 THEN [kind |-> "logic_error: Cannot divide by zero", value |-> 0]
        ELSE [kind |-> "value", value |-> IF abs(b) = 1 THEN 1 ELSE 0]
    ELSE IF e = 0 THEN
        IF b = 0 THEN [kind |-> "logic_error: Zero cannot be raised to zero", value |-> 0]
        ELSE [kind |-> "value", value |-> 1]
    ELSE [kind |-> "loop", value |-> 0]

PowEntry(b, e) ==
    IF e < 0 THEN
        IF b = 0 THEN [kind |-> "logic_error: Cannot divide by zero", value |-> 0]
        ELSE [kind |-> "value", value |-> IF abs(b) = 1 THEN b ELSE 0]
    ELSE IF e = 0 THEN
        IF b = 0 THEN [kind |-> "logic_error: Zero cannot be raised to zero", value |-> 0]
        ELSE [kind |-> "value", value |-> 1]
    ELSE [kind |-> "loop", value |-> 0]

PowOdd(big, e) == IF big THEN TruncMod(e, 2) = 1 ELSE TruncMod(e, 2) # 0

PowStep_noodd(big, s) ==
    [result     |-> s.result * s.result,
     result_odd |-> s.result_odd,
     exp        |-> TruncDiv(s.exp, 2)]

PowStep(big, s) ==
    [result     |-> s.result * s.result,
     result_odd |-> IF PowOdd(big, s.exp) THEN s.result_odd * s.result
                    ELSE s.result_odd,
     exp        |-> TruncDiv(s.exp, 2)]

RECURSIVE PowRun(_, _)
PowRun(big, s) ==
    IF s.exp > 1 THEN PowRun(big, PowStep(big, s))
    ELSE s.result * s.result_odd

\* pow(b, e) as a value, for the callers that never reach the throws
Pow(big, b, e) ==
    IF PowEntry(b, e).kind = "loop"
    THEN PowRun(big, [result |-> b, result_odd |-> 1, exp |-> e])
    ELSE PowEntry(b, e).value

(***************************************************************************)
(* Initial state and the return to the caller.                             *)
(***************************************************************************)
Init ==
    /\ fn = "none" /\ pc = "idle" /\ outcome = "none" /\ ret = 0 /\ retb = FALSE
    /\ base = 0 /\ exp_in = 0 /\ exp = 0 /\ result = 0 /\ result_odd = 0
    /\ num = 0 /\ sqrt_prev = 0 /\ sqrt_current = 0
    /\ num1 = 0 /\ num2 = 0 /\ abs_num1 = 0 /\ abs_num2 = 0 /\ remainder = 0
    /\ this = 0 /\ certainty_in = 0 /\ certainty = 0 /\ maxRand = 0 /\ d = 0
    /\ r = 0 /\ x = 0 /\ randNum = 0 /\ continueWhile = 0 /\ i = 0
    /\ draws = <<>>

Return ==
    /\ pc = "done"
    /\ fn' = "none" /\ pc' = "idle" /\ outcome' = "none" /\ ret' = 0 /\ retb' = FALSE
    /\ base' = 0 /\ exp_in' = 0 /\ exp' = 0 /\ result' = 0 /\ result_odd' = 0
    /\ num' = 0 /\ sqrt_prev' = 0 /\ sqrt_current' = 0
    /\ num1' = 0 /\ num2' = 0 /\ abs_num1' = 0 /\ abs_num2' = 0 /\ remainder' = 0
    /\ this' = 0 /\ certainty_in' = 0 /\ certainty' = 0 /\ maxRand' = 0 /\ d' = 0
    /\ r' = 0 /\ x' = 0 /\ randNum' = 0 /\ continueWhile' = 0 /\ i' = 0
    /\ draws' = <<>>

(***************************************************************************)
(* pow(const BigInt&, int) and pow(const BigInt&, BigInt)                  *)
(***************************************************************************)
PowCall ==
    \E big \in BOOLEAN, b \in -MaxBase..MaxBase, e \in -MaxExp..MaxExp :
        /\ pc = "idle"
        /\ fn' = (IF big THEN "pow_big" ELSE "pow_int")
        /\ base' = b /\ exp_in' = e /\ exp' = e
        /\ LET en == PowEntry(b, e) IN
             IF en.kind = "loop"
             THEN /\ pc' = "pow_loop"
                  /\ result' = b /\ result_odd' = 1
                  /\ UNCHANGED <<outcome, ret>>
             ELSE /\ pc' = "done"
                  /\ outcome' = en.kind /\ ret' = en.value
                  /\ UNCHANGED <<result, result_odd>>
        /\ UNCHANGED <<retb, sqrtVars, gcdVars, primeVars>>

PowLoop ==
    /\ pc = "pow_loop" /\ exp > 1
    /\ LET s == PowStep(fn = "pow_big",
                        [result |-> result, result_odd |-> result_odd, exp |-> exp])
       IN result' = s.result /\ result_odd' = s.result_odd /\ exp' = s.exp
    /\ UNCHANGED <<ctl, base, exp_in, sqrtVars, gcdVars, primeVars>>

PowReturn ==
    /\ pc = "pow_loop" /\ ~(exp > 1)
    /\ pc' = "done" /\ outcome' = "value" /\ ret' = result * result_odd
    /\ UNCHANGED <<fn, retb, powVars, sqrtVars, gcdVars, primeVars>>

(***************************************************************************)
(* sqrt                                                                    *)
(***************************************************************************)
\* num.to_string().size() / 2 - 1
SeedExp(v) == Len(to_string(v)) \div 2 - 1

\* the loop condition  abs(sqrt_current - sqrt_prev) > 1
SqrtContinue_equal(cur, prev) == abs(cur - prev) > 0

SqrtContinue(cur, prev) == abs(cur - prev) > 1

\* (num / sqrt_prev + sqrt_prev) / 2
SqrtNewton(v, prev) == TruncDiv(TruncDiv(v, prev) + prev, 2)

SqrtCall ==
    \E v \in -1..MaxNum :
        /\ pc = "idle"
        /\ fn' = "sqrt" /\ num' = v
        /\ IF v < 0 THEN
               /\ pc' = "done" /\ outcome' = "invalid_argument" /\ ret' = 0
               /\ UNCHANGED <<sqrt_prev, sqrt_current>>
           ELSE IF v < 16 THEN
               /\ pc' = "done" /\ outcome' = "value"
               /\ ret' = (IF v = 0 THEN 0 ELSE IF v < 4 THEN 1
                          ELSE IF v < 9 THEN 2 ELSE 3)
               /\ UNCHANGED <<sqrt_prev, sqrt_current>>
           ELSE
               /\ pc' = "sqrt_loop"
               /\ sqrt_prev' = -1
               /\ sqrt_current' = big_pow10(SeedExp(v))
               /\ UNCHANGED <<outcome, ret>>
        /\ UNCHANGED <<retb, powVars, gcdVars, primeVars>>

SqrtLoop ==
    /\ pc = "sqrt_loop" /\ SqrtContinue(sqrt_current, sqrt_prev)
    /\ sqrt_prev' = sqrt_current
    /\ sqrt_current' = SqrtNewton(num, sqrt_current)
    /\ UNCHANGED <<ctl, num, powVars, gcdVars, primeVars>>

SqrtReturn ==
    /\ pc = "sqrt_loop" /\ ~SqrtContinue(sqrt_current, sqrt_prev)
    /\ pc' = "done" /\ outcome' = "value" /\ ret' = sqrt_current
    /\ UNCHANGED <<fn, retb, powVars, sqrtVars, gcdVars, primeVars>>

(***************************************************************************)
(* gcd(const BigInt&, const BigInt&)                                       *)
(***************************************************************************)
\* one iteration of  while (remainder != 0)
GcdStep_keep(s) ==
    [abs_num1  |-> s.abs_num1,
     abs_num2  |-> TruncMod(s.abs_num1, s.abs_num2),
     remainder |-> TruncMod(s.abs_num1, s.abs_num2)]

GcdStep(s) ==
    [abs_num1  |-> s.abs_num2,
     abs_num2  |-> TruncMod(s.abs_num1, s.abs_num2),
     remainder |-> TruncMod(s.abs_num1, s.abs_num2)]

RECURSIVE GcdRun(_)
GcdRun(s) == IF s.remainder # 0 THEN GcdRun(GcdStep(s)) ELSE s.abs_num1

\* gcd(a, b) as a value
Gcd(a, b) ==
    IF abs(b) = 0 THEN abs(a)
    ELSE IF abs(a) = 0 THEN abs(b)
    ELSE GcdRun([abs_num1 |-> abs(a), abs_num2 |-> abs(b), remainder |-> abs(b)])

GcdCall ==
    \E a \in -MaxGcd..MaxGcd, b \in -MaxGcd..MaxGcd :
        /\ pc = "idle"
        /\ fn' = "gcd" /\ num1' = a /\ num2' = b
        /\ abs_num1' = abs(a) /\ abs_num2' = abs(b)
        /\ IF abs(b) = 0 THEN
               /\ pc' = "done" /\ outcome' = "value" /\ ret' = abs(a)
               /\ UNCHANGED remainder
           ELSE IF abs(a) = 0 THEN
               /\ pc' = "done" /\ outcome' = "value" /\ ret' = abs(b)
               /\ UNCHANGED remainder
           ELSE
               /\ pc' = "gcd_loop" /\ remainder' = abs(b)
               /\ UNCHANGED <<outcome, ret>>
        /\ UNCHANGED <<retb, powVars, sqrtVars, primeVars>>

GcdLoop ==
    /\ pc = "gcd_loop" /\ remainder # 0
    /\ LET s == GcdStep([abs_num1 |-> abs_num1, abs_num2 |-> abs_num2,
                         remainder |-> remainder])
       IN abs_num1' = s.abs_num1 /\ abs_num2' = s.abs_num2
          /\ remainder' = s.remainder
    /\ UNCHANGED <<ctl, num1, num2, powVars, sqrtVars, primeVars>>

GcdReturn ==
    /\ pc = "gcd_loop" /\ remainder = 0
    /\ pc' = "done" /\ outcome' = "value" /\ ret' = abs_num1
    /\ UNCHANGED <<fn, retb, powVars, sqrtVars, gcdVars, primeVars>>

(***************************************************************************)
(* lcm(const BigInt&, const BigInt&)                                       *)
(***************************************************************************)
\* the guard  num1 == 0 or num2 == 0
LcmIsZero(a, b) == a = 0 \/ b = 0

\* the dividend  abs(num1 * num2)
LcmDividend_noabs(a, b) == a * b

LcmDividend(a, b) == abs(a * b)

LcmCall ==
    \E a \in -MaxGcd..MaxGcd, b \in -MaxGcd..MaxGcd :
        /\ pc = "idle"
        /\ fn' = "lcm" /\ num1' = a /\ num2' = b
        /\ IF LcmIsZero(a, b)
           THEN pc' = "done" /\ outcome' = "value" /\ ret' = 0
           ELSE pc' = "lcm_divide" /\ UNCHANGED <<outcome, ret>>
        /\ UNCHANGED <<retb, abs_num1, abs_num2, remainder, powVars, sqrtVars,
                       primeVars>>

\* abs(num1 * num2) / gcd(num1, num2); BigInt's operator/ throws on a zero divisor
LcmDivide ==
    /\ pc = "lcm_divide"
    /\ pc' = "done"
    /\ IF Gcd(num1, num2) = 0
       THEN outcome' = "logic_error: Attempted division by zero" /\ ret' = 0
       ELSE outcome' = "value"
            /\ ret' = TruncDiv(LcmDividend(num1, num2), Gcd(num1, num2))
    /\ UNCHANGED <<fn, retb, powVars, sqrtVars, gcdVars, primeVars>>

(***************************************************************************)
(* BigInt::is_probable_prime(size_t certainty)                             *)
(*                                                                         *)
(* The callers modelled pass *this >= 0: for a negative odd *this the      *)
(* bound handed to n_random is negative, and n_random is not part of this  *)
(* file.                                                                   *)
(***************************************************************************)
\* the two early returns
PrimeEntry_strict(n) ==
    IF n < 2 THEN "false"
    ELSE IF n = 2 \/ n = 3 THEN "true"
    ELSE IF TruncMod(n, 2) = 0 THEN "false"
    ELSE "decompose"

PrimeEntry(n) ==
    IF n = 1 \/ n = 2 \/ n = 3 THEN "true"
    ELSE IF TruncMod(n, 2) = 0 THEN "false"
    ELSE "decompose"

\* d = maxRand; ++d;
DecompStart_noinc(m) == m

DecompStart(m) == m + 1

\* n_random(maxRand.value): a value of [0, maxRand]
n_random(bound) == 0..bound

\* x == one || x == *this - one
RoundFirstCheck_one(v, n) == v = 1

RoundFirstCheck(v, n) == v = 1 \/ v = n - 1

PrimeCall ==
    \E n \in 0..MaxPrime, c \in 0..MaxCertainty :
        /\ pc = "idle"
        /\ fn' = "is_probable_prime"
        /\ this' = n /\ certainty_in' = c /\ certainty' = c
        /\ IF PrimeEntry(n) = "decompose" THEN
               /\ pc' = "decompose"
               /\ maxRand' = n - 2
               /\ d' = DecompStart(n - 2)
               /\ r' = 0
               /\ continueWhile' = 1
               /\ UNCHANGED <<outcome, retb>>
           ELSE
               /\ pc' = "done" /\ outcome' = "bool"
               /\ retb' = (PrimeEntry(n) = "true")
               /\ UNCHANGED <<maxRand, d, r, continueWhile>>
        /\ UNCHANGED <<ret, x, randNum, i, draws, powVars, sqrtVars, gcdVars>>

\* while (d % two == 0) { ++r; d /= two; }
PrimeDecompose ==
    /\ pc = "decompose" /\ TruncMod(d, 2) = 0
    /\ r' = r + 1
    /\ d' = TruncDiv(d, 2)
    /\ UNCHANGED <<ctl, this, certainty_in, certainty, maxRand, x, randNum,
                   continueWhile, i, draws, powVars, sqrtVars, gcdVars>>

PrimeDecomposeExit ==
    /\ pc = "decompose" /\ TruncMod(d, 2) # 0
    /\ pc' = "rounds"
    /\ UNCHANGED <<fn, outcome, ret, retb, primeVars, powVars, sqrtVars, gcdVars>>

\* one pass of  while (certainty-- > 0)  up to the for loop
PrimeRound ==
    /\ pc = "rounds" /\ certainty > 0
    /\ \E a \in n_random(maxRand) :
        /\ certainty' = certainty - 1
        /\ randNum' = a
        /\ draws' = Append(draws, a)
        /\ LET x1 == TruncMod(Pow(TRUE, a, d), this) IN
            /\ x' = x1
            /\ IF RoundFirstCheck(x1, this)
               THEN UNCHANGED <<pc, continueWhile, i>>
               ELSE pc' = "inner" /\ continueWhile' = 0 /\ i' = 0
    /\ UNCHANGED <<fn, outcome, ret, retb, this, certainty_in, maxRand, d, r,
                   powVars, sqrtVars, gcdVars>>

\* one iteration of  for (int i = 0; i < r-1; i++)
PrimeInner ==
    /\ pc = "inner" /\ i < r - 1
    /\ LET x2 == TruncMod(Pow(FALSE, x, 2), this) IN
        /\ x' = x2
        /\ IF x2 = this - 1
           THEN continueWhile' = 1 /\ pc' = "rounds" /\ UNCHANGED i
           ELSE i' = i + 1 /\ UNCHANGED <<pc, continueWhile>>
    /\ UNCHANGED <<fn, outcome, ret, retb, this, certainty_in, certainty, maxRand,
                   d, r, randNum, draws, powVars, sqrtVars, gcdVars>>

\* the for loop ran out:  if (continueWhile) continue;  return false;
PrimeInnerExit ==
    /\ pc = "inner" /\ ~(i < r - 1)
    /\ IF continueWhile # 0
       THEN pc' = "rounds" /\ UNCHANGED <<outcome, retb>>
       ELSE pc' = "done" /\ outcome' = "bool" /\ retb' = FALSE
    /\ UNCHANGED <<fn, ret, primeVars, powVars, sqrtVars, gcdVars>>

\* certainty-- > 0 is false: return true
PrimeReturnTrue ==
    /\ pc = "rounds" /\ ~(certainty > 0)
    /\ pc' = "done" /\ outcome' = "bool" /\ retb' = TRUE
    /\ UNCHANGED <<fn, ret, primeVars, powVars, sqrtVars, gcdVars>>

Next ==
    \/ PowCall \/ PowLoop \/ PowReturn
    \/ SqrtCall \/ SqrtLoop \/ SqrtReturn
    \/ GcdCall \/ GcdLoop \/ GcdReturn
    \/ LcmCall \/ LcmDivide
    \/ PrimeCall \/ PrimeDecompose \/ PrimeDecomposeExit
    \/ PrimeRound \/ PrimeInner \/ PrimeInnerExit \/ PrimeReturnTrue
    \/ Return

Spec == Init /\ [][Next]_vars

\* Each started loop iteration and each return is eventually executed: the
\* functions are sequential code that nothing suspends.
FairSpec ==
    /\ Spec
    /\ WF_vars(SqrtLoop) /\ WF_vars(SqrtReturn)
    /\ WF_vars(PrimeDecompose) /\ WF_vars(PrimeDecomposeExit)

(***************************************************************************)
(* Reference arithmetic used to state the properties.                      *)
(***************************************************************************)
RECURSIVE NaivePow(_, _)
NaivePow(b, e) == IF e = 0 THEN 1 ELSE b * NaivePow(b, e - 1)

RECURSIVE ModExp(_, _, _)
ModExp(a, e, n) == IF e = 0 THEN 1 % n ELSE (a * ModExp(a, e - 1, n)) % n

Divides(k, v) == \E q \in -Mag(v)..Mag(v) : v = q * k

IsPrime(n) == n >= 2 /\ \A k \in 2..(n - 1) : n % k # 0

InPow == fn \in {"pow_int", "pow_big"}

InPrime == fn = "is_probable_prime"

\* the call went past the two early returns of is_probable_prime
PastEarlyReturns == InPrime /\ this > 3 /\ this % 2 = 1

\* a Miller-Rabin round with witness a passes
RoundPasses(a) ==
    \/ ModExp(a, d, this) = 1
    \/ ModExp(a, d, this) = this - 1
    \/ \E j \in 1..(r - 1) : ModExp(a, d * NaivePow(2, j), this) = this - 1

(***************************************************************************)
(* C1: for every x >= 0, sqrt(x) is the floor of the square root:          *)
(* sqrt(x)^2 <= x < (sqrt(x)+1)^2.                                         *)
(***************************************************************************)
C1_SqrtIsFloor ==
    (fn = "sqrt" /\ pc = "done" /\ num >= 0) =>
        /\ outcome = "value"
        /\ ret * ret <= num
        /\ num < (ret + 1) * (ret + 1)

(***************************************************************************)
(* C2: for a prime n, is_probable_prime returns true whatever witnesses of *)
(* [0, n-2] are drawn.                                                     *)
(***************************************************************************)
C2_PrimeAlwaysTrue ==
    (InPrime /\ pc = "done" /\ IsPrime(this)) => retb = TRUE

(***************************************************************************)
(* C3 as claimed: is_probable_prime(1, certainty) returns false.           *)
(***************************************************************************)
C3_OneReportedComposite ==
    (InPrime /\ pc = "done" /\ this = 1) => retb = FALSE

(***************************************************************************)
(* C3 amended: is_probable_prime(1, certainty) returns true for every      *)
(* certainty, without drawing a witness.                                   *)
(***************************************************************************)
C3_OneReportedPrime ==
    (InPrime /\ this = 1) =>
        pc = "done" /\ outcome = "bool" /\ retb = TRUE /\ draws = <<>>

C3_Witness == InPrime /\ pc = "done" /\ this = 1 /\ certainty_in > 0

(***************************************************************************)
(* C4: for e >= 1, and for e = 0 with b # 0, both pow overloads return b^e *)
(* as repeated multiplication gives it, so that for b # 0 and e1 + e2 = e  *)
(* pow(b, e1) * pow(b, e2) = pow(b, e).                                    *)
(***************************************************************************)
C4_PowIsPower ==
    (InPow /\ pc = "done" /\ (exp_in >= 1 \/ (exp_in = 0 /\ base # 0))) =>
        /\ outcome = "value"
        /\ ret = NaivePow(base, exp_in)
        /\ base # 0 =>
             \A e1 \in 0..exp_in :
                Pow(fn = "pow_big", base, e1) * Pow(fn = "pow_big", base, exp_in - e1)
                    = ret

C4_Witness ==
    fn = "pow_big" /\ pc = "done" /\ base = -3 /\ exp_in = 5 /\ ret = -243

(***************************************************************************)
(* C5: for e <= 0 pow never reaches the squaring loop; it throws for base  *)
(* 0 (division by zero for e < 0, zero-to-the-zero for e = 0), returns     *)
(* base when e < 0 and |base| = 1, 0 when e < 0 and |base| > 1, and 1 when *)
(* e = 0 and base # 0.  No other input makes pow throw.                    *)
(***************************************************************************)
C5_PowNonPositiveExponent ==
    /\ (InPow /\ exp_in <= 0) =>
        /\ pc = "done" /\ exp = exp_in
        /\ (exp_in < 0 /\ base = 0) =>
              outcome = "logic_error: Cannot divide by zero"
        /\ (exp_in = 0 /\ base = 0) =>
              outcome = "logic_error: Zero cannot be raised to zero"
        /\ (exp_in < 0 /\ base # 0 /\ Mag(base) = 1) =>
              outcome = "value" /\ ret = base
        /\ (exp_in < 0 /\ base # 0 /\ Mag(base) # 1) =>
              outcome = "value" /\ ret = 0
        /\ (exp_in = 0 /\ base # 0) => outcome = "value" /\ ret = 1
    /\ (InPow /\ pc = "done" /\ exp_in > 0) => outcome = "value"

C5_Witness ==
    fn = "pow_int" /\ pc = "done" /\ base = -1 /\ exp_in = -4 /\ ret = -1

(***************************************************************************)
(* C6: gcd(a, b) is non-negative, equals gcd(b, a), divides a and b, is    *)
(* the greatest common divisor of |a| and |b| unless both are 0, and       *)
(* gcd(a, 0) = |a|, gcd(0, b) = |b|, gcd(0, 0) = 0.                        *)
(***************************************************************************)
C6_GcdIsGcd ==
    (fn = "gcd" /\ pc = "done") =>
        /\ outcome = "value"
        /\ ret >= 0
        /\ ret = Gcd(num2, num1)
        /\ Divides(ret, num1) /\ Divides(ret, num2)
        /\ (num1 # 0 \/ num2 # 0) =>
              \A k \in 1..(Mag(num1) + Mag(num2)) :
                 (Divides(k, num1) /\ Divides(k, num2)) => k <= ret
        /\ num2 = 0 => ret = Mag(num1)
        /\ num1 = 0 => ret = Mag(num2)

C6_Witness == fn = "gcd" /\ pc = "done" /\ num1 = -6 /\ num2 = 9 /\ ret = 3

(***************************************************************************)
(* C7: for non-zero a and b, lcm(a, b) * gcd(a, b) = |a * b| and           *)
(* lcm(a, b) > 0; with a zero operand lcm returns 0 and never reaches the  *)
(* division by gcd.                                                        *)
(***************************************************************************)
C7_LcmTimesGcd ==
    /\ (fn = "lcm" /\ pc = "done" /\ num1 # 0 /\ num2 # 0) =>
        /\ outcome = "value"
        /\ ret * Gcd(num1, num2) = Mag(num1 * num2)
        /\ ret > 0
    /\ (fn = "lcm" /\ (num1 = 0 \/ num2 = 0)) =>
        pc = "done" /\ outcome = "value" /\ ret = 0

C7_Witness == fn = "lcm" /\ pc = "done" /\ num1 = -4 /\ num2 = 6 /\ ret = 12

(***************************************************************************)
(* C8: a round passes exactly when a^d mod n is 1 or n-1 or one of at most *)
(* r-1 squarings gives n-1; the call returns false at the first round that *)
(* does not pass, with no further draw, and true exactly when all          *)
(* `certainty` rounds pass (always, when certainty = 0).                   *)
(***************************************************************************)
C8_RoundsDecideResult ==
    (PastEarlyReturns /\ pc = "done") =>
        /\ outcome = "bool"
        /\ Len(draws) <= certainty_in
        /\ \A k \in 1..(Len(draws) - 1) : RoundPasses(draws[k])
        /\ retb = TRUE <=>
              /\ Len(draws) = certainty_in
              /\ \A k \in 1..Len(draws) : RoundPasses(draws[k])
        /\ retb = FALSE <=>
              /\ Len(draws) >= 1
              /\ ~RoundPasses(draws[Len(draws)])
        /\ certainty_in = 0 => retb = TRUE

C8_Witness ==
    /\ InPrime /\ pc = "done" /\ this = 9 /\ certainty_in = 2
    /\ Len(draws) = 1 /\ retb = FALSE

(***************************************************************************)
(* C9: for odd n > 3 the decomposition loop keeps d * 2^r = n - 1 at every *)
(* iteration, terminates with d odd and r >= 1, and no Miller-Rabin round  *)
(* changes d or r afterwards.                                              *)
(***************************************************************************)
C9_Decomposition ==
    /\ [](PastEarlyReturns =>
            /\ r >= 0
            /\ d * NaivePow(2, r) = this - 1
            /\ pc # "decompose" => (d % 2 = 1 /\ r >= 1))
    /\ [][(PastEarlyReturns /\ pc # "decompose" /\ pc' # "idle") =>
            (d' = d /\ r' = r)]_vars
    /\ ((PastEarlyReturns /\ pc = "decompose") ~> (pc = "rounds"))

C9_Witness ==
    InPrime /\ pc = "inner" /\ this = 13 /\ d = 3 /\ r = 2 /\ Len(draws) = 2

(***************************************************************************)
(* C10: for n >= 16 the Newton loop of sqrt starts from prev = -1 and the  *)
(* seed 10^(digits/2 - 1), whose exponent is never negative; the estimate  *)
(* stays >= 1, so no division by zero occurs; and the loop terminates with *)
(* two consecutive estimates at most 1 apart.                              *)
(***************************************************************************)
C10_NewtonTerminates ==
    /\ []((fn = "sqrt" /\ pc = "sqrt_loop") =>
            /\ num >= 16
            /\ Len(to_string(num)) \div 2 - 1 >= 0
            /\ sqrt_current >= 1)
    /\ [][(pc = "idle" /\ pc' = "sqrt_loop") =>
            /\ sqrt_prev' = -1
            /\ sqrt_current' = NaivePow(10, Len(to_string(num')) \div 2 - 1)]_vars
    /\ [](fn = "sqrt" /\ num >= 16 => pc \in {"sqrt_loop", "done"})
    /\ ((fn = "sqrt" /\ pc = "sqrt_loop") ~>
            (pc = "done" /\ Mag(sqrt_current - sqrt_prev) <= 1))

\* the loop stopped on two estimates that the iteration would alternate between
C10_Witness ==
    /\ fn = "sqrt" /\ pc = "done" /\ num >= 16
    /\ sqrt_current # sqrt_prev
    /\ SqrtNewton(num, sqrt_current) = sqrt_prev
====
